---- MODULE Spec2Model ----
(***************************************************************************)
(* Model of src/main.js: the submit handler of the deploy form.            *)
(*                                                                         *)
(* The handler is an async function.  Between two awaits JavaScript runs   *)
(* it to completion, so every action below is one such run: the code from  *)
(* the submit event to the first await (lines 9-29), or the code from the  *)
(* settling of an awaited promise to the next await or to the end of the   *)
(* finally block.                                                          *)
(*                                                                         *)
(* Field values and the request body are sequences of one-character        *)
(* strings (so that JSON escaping is visible); markup and messages are     *)
(* strings.                                                                *)
(***************************************************************************)
EXTENDS Integers, Sequences, FiniteSets, TLC

VARIABLES
    repoUrlInput,    \* [value]                         main.js:5
    basePathInput,   \* [value]                         main.js:6
    button,          \* [disabled, textContent]         main.js:2
    loading,         \* [display]                       main.js:3
    result,          \* [display, innerHTML, className] main.js:4
    handlers,        \* the running instances of the async handler
    console,         \* [count, last]: calls of console.error
    unhandled,       \* exceptions that left a handler instance uncaught
    nRequests,       \* calls of fetch("/api/deploy", ...)
    nSubmits,        \* submit events handled            (history)
    nFailures,       \* failures raised inside the try   (history)
    settled          \* the outcome of the latest settlement, "none" once
                     \* a later submission has started   (history)

vars == <<repoUrlInput, basePathInput, button, loading, result, handlers,
          console, unhandled, nRequests, nSubmits, nFailures, settled>>

----------------------------------------------------------------------------
(* Bounds and input sets *)

MaxSubmits == 3

Slots == {1, 2}

UrlValues == { <<>>, <<"a">>, <<"a", "\\">> }

BasePathValues == { <<>>, <<"/">>, <<" ">>, <<"\"", "b">> }

InitialLabels == {"Deploy", "Deploy Site"}

InitialDisplays == {"", "none"}

Statuses == {200, 299, 300, 500}

TextBodies == {"", "internal failure"}

FetchErrors == {"Failed to fetch"}

BodyErrors == {"Unexpected end of JSON input"}

StreamErrors == {"network error"}

----------------------------------------------------------------------------
(* JavaScript values delivered by response.json() *)

Undefined == [kind |-> "undefined", str |-> ""]

Str(s) == [kind |-> "string", str |-> s]

JsonNull == [kind |-> "null", slug |-> Undefined, url |-> Undefined]

JsonObject(slug, url) == [kind |-> "object", slug |-> slug, url |-> url]

JsonValues ==
    { JsonNull,
      JsonObject(Str("abc123"), Str("https://abc123.example.com")),
      JsonObject(Undefined, Undefined) }

\* String(v) as a template literal applies it to a property value.
ToStr(v) == IF v.kind = "undefined" THEN "undefined" ELSE v.str

----------------------------------------------------------------------------
(* JSON.stringify({ url, base_path }) *)

RECURSIVE JSONEscape(_)
JSONEscape(s) ==
    IF s = <<>> THEN <<>>
    ELSE LET c == Head(s)
         IN  (IF c = "\"" THEN <<"\\", "\"">>
              ELSE IF c = "\\" THEN <<"\\", "\\">>
              ELSE <<c>>) \o JSONEscape(Tail(s))

JSONQuote(s) == <<"\"">> \o JSONEscape(s) \o <<"\"">>

JSONstringify(url, base_path) ==
    <<"{", "\"", "u", "r", "l", "\"", ":">> \o JSONQuote(url)
    \o <<",", "\"", "b", "a", "s", "e", "_", "p", "a", "t", "h", "\"", ":">>
    \o JSONQuote(base_path) \o <<"}">>

----------------------------------------------------------------------------
(* The pieces of the handler, in source order *)

\* Mutant: a whitespace-only value is taken for an empty one.
DefaultBasePathTrimmed(value) ==
    IF value # <<>> /\ value # <<" ">> THEN value ELSE <<"/">>

\* line 12: basePathInput.value ? basePathInput.value : "/"
DefaultBasePath(value) == IF value # <<>> THEN value ELSE <<"/">>

\* Mutant: the label changes but the button stays enabled.
Phase1ButtonLabelOnly(b) == [b EXCEPT !.textContent = "Deploying..."]

\* lines 15-16
Phase1Button(b) == [b EXCEPT !.disabled = TRUE, !.textContent = "Deploying..."]

\* line 17
Phase1Loading(l) == [l EXCEPT !.display = "block"]

\* Mutant: the panel is hidden but keeps its old content and class.
Phase1ResultHideOnly(r) == [r EXCEPT !.display = "none"]

\* lines 18-20
Phase1Result(r) == [r EXCEPT !.display = "none", !.innerHTML = "", !.className = ""]

\* line 31: Response.ok is true for the statuses 200..299
ResponseOk(status) == status >= 200 /\ status <= 299

\* Mutant: the properties are read with optional chaining, which never throws.
TemplateNeverThrows(data) == FALSE

\* lines 34-40: data.slug and data.url throw a TypeError when data is null
TemplateThrows(data) == data.kind = "null"

NullSlugError == "Cannot read properties of null (reading 'slug')"

\* Mutant: the link points at the slug instead of the site address.
SuccessMarkupSlugHref(data) ==
    "\n                        <strong>Success!</strong>"
    \o "\n                        <p>Site ID: <strong>" \o ToStr(data.slug)
    \o "</strong></p>"
    \o "\n                        <a href=\"" \o ToStr(data.slug)
    \o "\" target=\"_blank\" id=\"result-url\">"
    \o "\n                            Go to Site"
    \o "\n                        </a>"
    \o "\n                    "

SuccessMarkup(data) ==
    "\n                        <strong>Success!</strong>"
    \o "\n                        <p>Site ID: <strong>" \o ToStr(data.slug)
    \o "</strong></p>"
    \o "\n                        <a href=\"" \o ToStr(data.url)
    \o "\" target=\"_blank\" id=\"result-url\">"
    \o "\n                            Go to Site"
    \o "\n                        </a>"
    \o "\n                    "

\* Mutant: no fallback for an empty body.
ErrorTextNoFallback(text) == text

\* line 42: (await response.text()) || "Deployment failed."
ErrorText(text) == IF text # "" THEN text ELSE "Deployment failed."

\* line 43
ServerError(status, text) ==
    "Server error: " \o ToString(status) \o " " \o ErrorText(text)

\* Mutant: the error panel shows a fixed text instead of err.message.
ErrorMarkupFixed(message) == "<strong>Error:</strong> Deployment failed."

\* line 47
ErrorMarkup(message) == "<strong>Error:</strong> " \o message

\* What the try block leaves behind: the panel as written so far, and the
\* exception (if any) on its way to the catch block.
Completed(r) == [result |-> r, thrown |-> FALSE, err |-> ""]

Thrown(r, message) == [result |-> r, thrown |-> TRUE, err |-> message]

\* lines 32-40, from the resolution of response.json() on
TryJson(r, data) ==
    LET r1 == [r EXCEPT !.className = "success"]
    IN  IF TemplateThrows(data)
        THEN Thrown(r1, NullSlugError)
        ELSE Completed([r1 EXCEPT !.innerHTML = SuccessMarkup(data)])

\* lines 42-43, from the resolution of response.text() on
TryText(r, status, text) == Thrown(r, ServerError(status, text))

\* Mutant: the catch block writes the message but not the class.
CatchBlockNoClass(r, c, message) ==
    [result   |-> [r EXCEPT !.innerHTML = ErrorMarkup(message)],
     console  |-> [count |-> c.count + 1, last |-> message],
     rethrown |-> FALSE]

\* Mutant: the catch block renders the failure and throws it again.
CatchBlockRethrows(r, c, message) ==
    [result   |-> [r EXCEPT !.className = "error",
                            !.innerHTML = ErrorMarkup(message)],
     console  |-> [count |-> c.count + 1, last |-> message],
     rethrown |-> TRUE]

\* lines 45-48: the catch block; it does not rethrow
CatchBlock(r, c, message) ==
    [result   |-> [r EXCEPT !.className = "error",
                            !.innerHTML = ErrorMarkup(message)],
     console  |-> [count |-> c.count + 1, last |-> message],
     rethrown |-> FALSE]

\* Mutant: the label is restored but the button is not re-enabled.
FinallyButtonLabelOnly(b) == [b EXCEPT !.textContent = "Deploy"]

\* Mutant: the finally block repeats phase 1's assignment.
FinallyButtonDisabled(b) == [b EXCEPT !.disabled = TRUE, !.textContent = "Deploy"]

\* Mutant: the button is re-enabled but keeps the in-progress label.
FinallyButtonEnableOnly(b) == [b EXCEPT !.disabled = FALSE]

\* lines 51-52
FinallyButton(b) == [b EXCEPT !.disabled = FALSE, !.textContent = "Deploy"]

\* Mutant: the finally block leaves the loading indicator as it is.
FinallyLoadingKeeps(l) == l

\* line 53
FinallyLoading(l) == [l EXCEPT !.display = "none"]

\* line 54
FinallyResult(r) == [r EXCEPT !.display = "block"]

----------------------------------------------------------------------------
(* Handler instances *)

NoBefore == [disabled |-> FALSE, textContent |-> ""]

Idle == [pc |-> "idle", body |-> <<>>, status |-> 0, before |-> NoBefore]

InFlight(h) == handlers[h].pc \in {"awaitFetch", "awaitJson", "awaitText"}

NoData == JsonObject(Undefined, Undefined)

NotSettled ==
    [event |-> "none", slot |-> 0, status |-> 0, text |-> "", data |-> NoData,
     err |-> "", before |-> NoBefore]

Init ==
    /\ repoUrlInput = [value |-> <<>>]
    /\ basePathInput = [value |-> <<>>]
    /\ \E label \in InitialLabels :
          button = [disabled |-> FALSE, textContent |-> label]
    /\ \E d \in InitialDisplays : loading = [display |-> d]
    /\ \E d \in InitialDisplays :
          result = [display |-> d, innerHTML |-> "", className |-> ""]
    /\ handlers = [h \in Slots |-> Idle]
    /\ console = [count |-> 0, last |-> ""]
    /\ unhandled = 0
    /\ nRequests = 0
    /\ nSubmits = 0
    /\ nFailures = 0
    /\ settled = NotSettled

\* The user types into a field.
EditRepoUrl ==
    /\ \E v \in UrlValues \ {repoUrlInput.value} :
          repoUrlInput' = [repoUrlInput EXCEPT !.value = v]
    /\ UNCHANGED <<basePathInput, button, loading, result, handlers, console,
                   unhandled, nRequests, nSubmits, nFailures, settled>>

EditBasePath ==
    /\ \E v \in BasePathValues \ {basePathInput.value} :
          basePathInput' = [basePathInput EXCEPT !.value = v]
    /\ UNCHANGED <<repoUrlInput, button, loading, result, handlers, console,
                   unhandled, nRequests, nSubmits, nFailures, settled>>

\* A new instance of the handler takes the first free slot.
FreeSlot(h) ==
    /\ handlers[h].pc = "idle"
    /\ \A g \in Slots : g < h => handlers[g].pc # "idle"

\* Mutant: the handler returns early when the repo-url field is empty.
StartHandlerValidates(h) ==
    /\ nSubmits < MaxSubmits
    /\ FreeSlot(h)
    /\ nSubmits' = nSubmits + 1
    /\ IF repoUrlInput.value = <<>>
       THEN UNCHANGED <<handlers, button, loading, result, nRequests, settled>>
       ELSE /\ handlers' = [handlers EXCEPT ![h] =
                              [pc     |-> "awaitFetch",
                               body   |-> JSONstringify(repoUrlInput.value,
                                             DefaultBasePath(basePathInput.value)),
                               status |-> 0,
                               before |-> [disabled    |-> button.disabled,
                                           textContent |-> button.textContent]]]
            /\ button' = Phase1Button(button)
            /\ loading' = Phase1Loading(loading)
            /\ result' = Phase1Result(result)
            /\ nRequests' = nRequests + 1
            /\ settled' = NotSettled
    /\ UNCHANGED <<repoUrlInput, basePathInput, console, unhandled, nFailures>>

\* lines 9-29: from the submit event to the suspension at await fetch(...)
StartHandler(h) ==
    /\ nSubmits < MaxSubmits
    /\ FreeSlot(h)
    /\ LET url == repoUrlInput.value
           base_path == DefaultBasePath(basePathInput.value)
       IN  handlers' = [handlers EXCEPT ![h] =
                           [pc     |-> "awaitFetch",
                            body   |-> JSONstringify(url, base_path),
                            status |-> 0,
                            before |-> [disabled    |-> button.disabled,
                                        textContent |-> button.textContent]]]
    /\ button' = Phase1Button(button)
    /\ loading' = Phase1Loading(loading)
    /\ result' = Phase1Result(result)
    /\ nRequests' = nRequests + 1
    /\ nSubmits' = nSubmits + 1
    /\ settled' = NotSettled
    /\ UNCHANGED <<repoUrlInput, basePathInput, console, unhandled, nFailures>>

\* The browser delivers no submit event through a disabled submit button.
DeliveryGuard == ~button.disabled

SubmitEvent == DeliveryGuard /\ \E h \in Slots : StartHandler(h)

\* A submit event from elsewhere (form.requestSubmit(), a second control).
SubmitAnytime == \E h \in Slots : StartHandler(h)

\* Mutant: the finally block also resets the form (form.reset()).
SettleResetsForm(h, t, info) ==
    LET c == CatchBlock(t.result, console, t.err)
    IN  /\ result' = FinallyResult(IF t.thrown THEN c.result ELSE t.result)
        /\ console' = IF t.thrown THEN c.console ELSE console
        /\ unhandled' = IF t.thrown /\ c.rethrown THEN unhandled + 1 ELSE unhandled
        /\ button' = FinallyButton(button)
        /\ loading' = FinallyLoading(loading)
        /\ nFailures' = IF t.thrown THEN nFailures + 1 ELSE nFailures
        /\ handlers' = [handlers EXCEPT ![h] = Idle]
        /\ settled' = [info EXCEPT !.slot = h, !.before = handlers[h].before]
        /\ repoUrlInput' = [repoUrlInput EXCEPT !.value = <<>>]
        /\ basePathInput' = [basePathInput EXCEPT !.value = <<>>]
        /\ UNCHANGED <<nRequests, nSubmits>>

\* lines 45-55: the catch block if the try block threw, then the finally block
Settle(h, t, info) ==
    LET c == CatchBlock(t.result, console, t.err)
    IN  /\ result' = FinallyResult(IF t.thrown THEN c.result ELSE t.result)
        /\ console' = IF t.thrown THEN c.console ELSE console
        /\ unhandled' = IF t.thrown /\ c.rethrown THEN unhandled + 1 ELSE unhandled
        /\ button' = FinallyButton(button)
        /\ loading' = FinallyLoading(loading)
        /\ nFailures' = IF t.thrown THEN nFailures + 1 ELSE nFailures
        /\ handlers' = [handlers EXCEPT ![h] = Idle]
        /\ settled' = [info EXCEPT !.slot = h, !.before = handlers[h].before]
        /\ UNCHANGED <<repoUrlInput, basePathInput, nRequests, nSubmits>>

\* Mutant: the form is released as soon as the response headers arrive.
FetchResolveReleases(h, status) ==
    /\ handlers[h].pc = "awaitFetch"
    /\ handlers' = [handlers EXCEPT
                       ![h].pc = IF ResponseOk(status) THEN "awaitJson" ELSE "awaitText",
                       ![h].body = <<>>,
                       ![h].status = status]
    /\ button' = FinallyButton(button)
    /\ loading' = FinallyLoading(loading)
    /\ UNCHANGED <<repoUrlInput, basePathInput, result, console,
                   unhandled, nRequests, nSubmits, nFailures, settled>>

\* lines 23-32 / 42: fetch resolves; the handler suspends again on the body
FetchResolve(h, status) ==
    /\ handlers[h].pc = "awaitFetch"
    /\ handlers' = [handlers EXCEPT
                       ![h].pc = IF ResponseOk(status) THEN "awaitJson" ELSE "awaitText",
                       ![h].body = <<>>,
                       ![h].status = status]
    /\ UNCHANGED <<repoUrlInput, basePathInput, button, loading, result, console,
                   unhandled, nRequests, nSubmits, nFailures, settled>>

\* Mutant: a transport failure sends the request again.
FetchRejectRetry(h, message) ==
    /\ handlers[h].pc = "awaitFetch"
    /\ nRequests' = nRequests + 1
    /\ UNCHANGED <<repoUrlInput, basePathInput, button, loading, result, handlers,
                   console, unhandled, nSubmits, nFailures, settled>>

\* line 23: fetch rejects (transport failure)
FetchReject(h, message) ==
    /\ handlers[h].pc = "awaitFetch"
    /\ Settle(h, Thrown(result, message),
              [NotSettled EXCEPT !.event = "fetchRejected", !.err = message])

\* line 32: response.json() resolves with the parsed body
JsonResolve(h, data) ==
    /\ handlers[h].pc = "awaitJson"
    /\ Settle(h, TryJson(result, data),
              [NotSettled EXCEPT !.event = "jsonResolved",
                                 !.status = handlers[h].status, !.data = data])

\* line 32: response.json() rejects (the body is not JSON, or the stream fails)
JsonReject(h, message) ==
    /\ handlers[h].pc = "awaitJson"
    /\ Settle(h, Thrown(result, message),
              [NotSettled EXCEPT !.event = "jsonRejected",
                                 !.status = handlers[h].status, !.err = message])

\* line 42: response.text() resolves with the body
TextResolve(h, text) ==
    /\ handlers[h].pc = "awaitText"
    /\ Settle(h, TryText(result, handlers[h].status, text),
              [NotSettled EXCEPT !.event = "textResolved",
                                 !.status = handlers[h].status, !.text = text])

\* line 42: response.text() rejects (the stream fails)
TextReject(h, message) ==
    /\ handlers[h].pc = "awaitText"
    /\ Settle(h, Thrown(result, message),
              [NotSettled EXCEPT !.event = "textRejected",
                                 !.status = handlers[h].status, !.err = message])

Complete(h) ==
    \/ \E status \in Statuses : FetchResolve(h, status)
    \/ \E message \in FetchErrors : FetchReject(h, message)
    \/ \E data \in JsonValues : JsonResolve(h, data)
    \/ \E message \in BodyErrors : JsonReject(h, message)
    \/ \E text \in TextBodies : TextResolve(h, text)
    \/ \E message \in StreamErrors : TextReject(h, message)

\* Mutant: a timer aborts a request that is still pending.
ResponsesWithTimeout ==
    \/ \E h \in Slots, status \in Statuses : FetchResolve(h, status)
    \/ \E h \in Slots, message \in FetchErrors : FetchReject(h, message)
    \/ \E h \in Slots, data \in JsonValues : JsonResolve(h, data)
    \/ \E h \in Slots, message \in BodyErrors : JsonReject(h, message)
    \/ \E h \in Slots, text \in TextBodies : TextResolve(h, text)
    \/ \E h \in Slots, message \in StreamErrors : TextReject(h, message)
    \/ \E h \in Slots :
          /\ InFlight(h)
          /\ Settle(h, Thrown(result, "The operation was aborted."),
                    [NotSettled EXCEPT !.event = "timeout"])

Responses ==
    \/ \E h \in Slots, status \in Statuses : FetchResolve(h, status)
    \/ \E h \in Slots, message \in FetchErrors : FetchReject(h, message)
    \/ \E h \in Slots, data \in JsonValues : JsonResolve(h, data)
    \/ \E h \in Slots, message \in BodyErrors : JsonReject(h, message)
    \/ \E h \in Slots, text \in TextBodies : TextResolve(h, text)
    \/ \E h \in Slots, message \in StreamErrors : TextReject(h, message)

\* Submit events reach the handler only while the button is enabled.
Next == SubmitEvent \/ EditRepoUrl \/ EditBasePath \/ Responses

Spec == Init /\ [][Next]_vars

\* Submit events reach the handler at any time.
NextOverlap == SubmitAnytime \/ EditRepoUrl \/ EditBasePath \/ Responses

SpecOverlap == Init /\ [][NextOverlap]_vars

\* Every request completes: an awaited promise eventually settles.
LiveSpec == Spec /\ \A h \in Slots : WF_vars(Complete(h))

LiveSpecOverlap == SpecOverlap /\ \A h \in Slots : WF_vars(Complete(h))

----------------------------------------------------------------------------
(* Vocabulary of the properties *)

Settled == settled.event # "none"

AnyInFlight == \E h \in Slots : InFlight(h)

\* The latest settlement ended a submission that failed.
Failed ==
    \/ settled.event \in {"fetchRejected", "jsonRejected", "textResolved", "textRejected"}
    \/ settled.event = "jsonResolved" /\ settled.data.kind = "null"

\* The message of the failure that ended it.
FailureMessage ==
    IF settled.event = "textResolved" THEN ServerError(settled.status, settled.text)
    ELSE IF settled.event = "jsonResolved" THEN NullSlugError
    ELSE settled.err

\* What a JSON parser reads back from a request body: the characters of the
\* string literal that starts after position i - 1, and where it ends.
RECURSIVE ReadString(_, _)
ReadString(s, i) ==
    IF s[i] = "\"" THEN [val |-> <<>>, next |-> i + 1]
    ELSE IF s[i] = "\\"
         THEN LET r == ReadString(s, i + 2)
              IN  [val |-> <<s[i + 1]>> \o r.val, next |-> r.next]
         ELSE LET r == ReadString(s, i + 1)
              IN  [val |-> <<s[i]>> \o r.val, next |-> r.next]

Transmitted(body) ==
    LET u == ReadString(body, 9)
        b == ReadString(body, u.next + 14)
    IN  [url |-> u.val, base_path |-> b.val]

----------------------------------------------------------------------------
(* C1: once a submission has settled (whatever its request's outcome) the  *)
(* result panel is visible and its class is exactly one of "success" and   *)
(* "error".                                                                *)
C1_ExactlyOnePanel ==
    Settled => /\ result.display = "block"
               /\ result.className \in {"success", "error"}

C1_Witness ==
    /\ settled.event = "jsonRejected"
    /\ result.display = "block"
    /\ result.className = "error"

(* C2: every submission whose request completes reaches settlement, and at *)
(* settlement the button is enabled, the loading indicator hidden and the  *)
(* result panel visible.                                                   *)
C2_GuaranteedRelease ==
    \A h \in Slots :
        InFlight(h) ~> /\ settled.slot = h
                       /\ ~button.disabled
                       /\ loading.display = "none"
                       /\ result.display = "block"

C2_Witness ==
    /\ settled.event = "fetchRejected"
    /\ ~button.disabled
    /\ loading.display = "none"
    /\ result.display = "block"

(* C3: every failure of the request phase is caught once and never leaves  *)
(* the handler: the panel has class "error" and shows "<strong>Error:      *)
(* </strong> " and the failure's message, the failure is logged to the     *)
(* console exactly once, and the page is not left loading.                 *)
C3_CaughtOnce ==
    /\ unhandled = 0
    /\ console.count = nFailures
    /\ Failed => /\ result.className = "error"
                 /\ result.innerHTML = "<strong>Error:</strong> " \o FailureMessage
                 /\ console.last = FailureMessage
                 /\ result.display = "block"
                 /\ loading.display = "none"
                 /\ ~button.disabled

C3_Witness ==
    /\ settled.event = "jsonResolved"
    /\ settled.data.kind = "null"
    /\ result.className = "error"
    /\ console.count = 2

(* C4: when submit events arrive only while the button is enabled, at most *)
(* one request is in flight at any time and the button is disabled for as  *)
(* long as one is.                                                         *)
C4_SingleFlight ==
    /\ Cardinality({h \in Slots : InFlight(h)}) <= 1
    /\ AnyInFlight => button.disabled
    /\ \A h \in Slots : InFlight(h) => ~handlers[h].before.disabled

C4_Witness ==
    /\ nSubmits = 2
    /\ InFlight(1)
    /\ button.disabled

(* C5 as claimed: after settlement the button's disabled state equals the  *)
(* state it had just before the submission's handler started.              *)
C5_Original == Settled => button.disabled = settled.before.disabled

(* C5 as amended: after settlement the button is enabled, which is the     *)
(* state it had before the handler started whenever the handler started    *)
(* with the button enabled.                                                *)
C5_EnabledAfter ==
    Settled => /\ ~button.disabled
               /\ ~settled.before.disabled => button.disabled = settled.before.disabled

C5_Witness ==
    /\ Settled
    /\ ~settled.before.disabled
    /\ ~button.disabled
    /\ nSubmits = 2

(* C6: the request body carries the repo-url input verbatim as url, and as *)
(* base_path "/" when the base-path input is empty and the input's value   *)
(* unmodified otherwise.                                                   *)
C6_TransmittedBody ==
    [][\A h \in Slots :
          (handlers[h].pc # "awaitFetch" /\ handlers'[h].pc = "awaitFetch") =>
              LET sent == Transmitted(handlers'[h].body)
              IN  /\ sent.url = repoUrlInput.value
                  /\ sent.base_path = IF basePathInput.value = <<>>
                                      THEN <<"/">>
                                      ELSE basePathInput.value]_vars

C6_Witness ==
    \E h \in Slots :
        /\ handlers[h].pc = "awaitFetch"
        /\ repoUrlInput.value = <<"a", "\\">>
        /\ basePathInput.value = <<>>
        /\ Transmitted(handlers[h].body) = [url |-> <<"a", "\\">>, base_path |-> <<"/">>]

(* C7: a non-2xx response with status s and text body b ends in an error   *)
(* panel showing "Server error: <s> <b>", with "Deployment failed." for an *)
(* empty b; the body of a non-2xx response is never parsed as JSON.        *)
C7_ServerError ==
    /\ settled.event = "textResolved" =>
          /\ result.className = "error"
          /\ result.innerHTML =
                "<strong>Error:</strong> Server error: " \o ToString(settled.status)
                \o " " \o (IF settled.text = "" THEN "Deployment failed."
                                                ELSE settled.text)
    /\ \A h \in Slots :
          /\ handlers[h].pc = "awaitJson" => handlers[h].status \in 200..299
          /\ handlers[h].pc = "awaitText" => handlers[h].status \notin 200..299
    /\ settled.event \in {"jsonResolved", "jsonRejected"} => settled.status \in 200..299
    /\ settled.event \in {"textResolved", "textRejected"} => settled.status \notin 200..299

C7_Witness ==
    /\ settled.event = "textResolved"
    /\ settled.status = 500
    /\ settled.text = ""
    /\ result.innerHTML = "<strong>Error:</strong> Server error: 500 Deployment failed."

\* The success markup for a slug and a site address.
ExpectedSuccess(slug, url) ==
    "\n                        <strong>Success!</strong>"
    \o "\n                        <p>Site ID: <strong>" \o slug \o "</strong></p>"
    \o "\n                        <a href=\"" \o url \o "\" target=\"_blank\" id=\"result-url\">"
    \o "\n                            Go to Site"
    \o "\n                        </a>"
    \o "\n                    "

(* C8 as claimed: a 2xx response whose body parses as JSON ends in the     *)
(* success panel, never in the error panel.                                *)
C8_Original == settled.event = "jsonResolved" => result.className = "success"

(* C8 as amended: a 2xx response whose body parses as a JSON object with a *)
(* string slug and a string url ends in the success panel, which contains  *)
(* the slug and a link whose href is the url.                              *)
C8_SuccessPanel ==
    ( /\ settled.event = "jsonResolved"
      /\ settled.data.kind = "object"
      /\ settled.data.slug.kind = "string"
      /\ settled.data.url.kind = "string" ) =>
        /\ result.className = "success"
        /\ result.innerHTML = ExpectedSuccess(settled.data.slug.str, settled.data.url.str)

C8_Witness ==
    /\ settled.event = "jsonResolved"
    /\ settled.data = JsonObject(Str("abc123"), Str("https://abc123.example.com"))
    /\ result.className = "success"
    /\ result.display = "block"

(* C9: without overlapping submissions, from the moment the POST is issued *)
(* until its outcome is processed the button is disabled and labelled      *)
(* "Deploying...", the loading indicator is shown, and the result panel is *)
(* hidden with empty content and empty class.                              *)
C9_Phase1 ==
    AnyInFlight =>
        /\ button = [disabled |-> TRUE, textContent |-> "Deploying..."]
        /\ loading.display = "block"
        /\ result = [display |-> "none", innerHTML |-> "", className |-> ""]

C9_Witness ==
    /\ InFlight(1)
    /\ nSubmits = 2
    /\ console.count = 1
    /\ result.innerHTML = ""

(* C10: each submit event causes exactly one POST; a failed request is     *)
(* never sent again.                                                       *)
C10_OneRequestPerSubmit ==
    /\ nRequests = nSubmits
    /\ Cardinality({h \in Slots : InFlight(h)}) <= nRequests

C10_Witness ==
    /\ nSubmits = 2
    /\ nRequests = 2
    /\ nFailures = 2
    /\ ~AnyInFlight

(* C11: a failure after response.ok was observed (response.json() rejects, *)
(* or building the success markup throws once the class is already         *)
(* "success") ends in the error panel, with no success markup displayed.   *)
C11_FailureAfterOk ==
    ( /\ settled.status \in 200..299
      /\ \/ settled.event = "jsonRejected"
         \/ settled.event = "jsonResolved" /\ settled.data.kind = "null" ) =>
        /\ result.className = "error"
        /\ result.display = "block"
        /\ result.innerHTML =
              "<strong>Error:</strong> "
              \o (IF settled.event = "jsonRejected"
                  THEN settled.err
                  ELSE "Cannot read properties of null (reading 'slug')")

C11_Witness ==
    /\ settled.event = "jsonRejected"
    /\ settled.status = 200
    /\ result.className = "error"
    /\ result.innerHTML = "<strong>Error:</strong> Unexpected end of JSON input"

(* C12 as claimed: after settlement the button's label equals the label it *)
(* had just before the submission started, whatever label the page gave.   *)
C12_Original == Settled => button.textContent = settled.before.textContent

(* C12 as amended: after settlement the button's label is "Deploy", which  *)
(* is the label it had before the submission started whenever that label   *)
(* was "Deploy".                                                           *)
C12_LabelDeploy ==
    Settled =>
        /\ button.textContent = "Deploy"
        /\ (button.textContent = settled.before.textContent)
              <=> (settled.before.textContent = "Deploy")

C12_Witness ==
    /\ Settled
    /\ settled.before.textContent = "Deploy"
    /\ button.textContent = "Deploy"
    /\ nSubmits = 2

(* C13: the handler does not validate the url field: a submit event with   *)
(* an empty repo-url input still issues a request, with url the empty      *)
(* string, and enters the same loading phase as any other submission.      *)
C13_EmptyUrlSent ==
    [][(nSubmits' = nSubmits + 1 /\ repoUrlInput.value = <<>>) =>
          /\ nRequests' = nRequests + 1
          /\ \E h \in Slots :
                /\ handlers[h].pc = "idle"
                /\ handlers'[h].pc = "awaitFetch"
                /\ Transmitted(handlers'[h].body).url = <<>>
          /\ button' = [disabled |-> TRUE, textContent |-> "Deploying..."]
          /\ loading'.display = "block"
          /\ result' = [display |-> "none", innerHTML |-> "", className |-> ""]]_vars

C13_Witness ==
    \E h \in Slots :
        /\ handlers[h].pc = "awaitFetch"
        /\ Transmitted(handlers[h].body).url = <<>>
        /\ Transmitted(handlers[h].body).base_path = <<" ">>
        /\ button.disabled
        /\ loading.display = "block"

\* The events that complete what a handler at pc is waiting for.
CompletionEvents(pc) ==
    IF pc = "awaitFetch" THEN {"fetchRejected"}
    ELSE IF pc = "awaitJson" THEN {"jsonResolved", "jsonRejected"}
    ELSE IF pc = "awaitText" THEN {"textResolved", "textRejected"}
    ELSE {}

C15_LoadingXorResult ==
    nSubmits >= 1 =>
        /\ \/ loading.display = "block" /\ result.display = "none"
           \/ loading.display = "none" /\ result.display = "block"
        /\ AnyInFlight => loading.display = "block"
        /\ (result.innerHTML # "" \/ result.className # "") =>
              /\ ~AnyInFlight
              /\ Settled
              /\ result.display = "block"

C15_Witness ==
    /\ nSubmits = 1
    /\ settled.event = "textRejected"
    /\ loading.display = "none"
    /\ result.display = "block"

\* The text a template literal gives a property value.
PropText(v) == IF v.kind = "string" THEN v.str ELSE "undefined"

\* The panel content that the latest settlement's response alone calls for.
ExpectedContent ==
    IF Failed
    THEN "<strong>Error:</strong> " \o FailureMessage
    ELSE ExpectedSuccess(PropText(settled.data.slug), PropText(settled.data.url))

(* C16: over non-overlapping submissions the panel after a settlement      *)
(* reflects that submission's outcome only: class and content are a        *)
(* function of its response, with nothing left from earlier submissions.   *)
C16_OnlyLatestOutcome ==
    Settled =>
        /\ result.className = IF Failed THEN "error" ELSE "success"
        /\ result.innerHTML = ExpectedContent

C16_Witness ==
    /\ nSubmits = 2
    /\ console.count = 1
    /\ settled.event = "jsonResolved"
    /\ settled.data = JsonObject(Str("abc123"), Str("https://abc123.example.com"))
    /\ result.className = "success"
    /\ result.innerHTML = ExpectedSuccess("abc123", "https://abc123.example.com")

InFlightSet == {h \in Slots : InFlight(h)}

\* A request is in flight while the button is enabled and loading is hidden.
PendingWhileReleased ==
    /\ AnyInFlight
    /\ ~button.disabled
    /\ loading.display = "none"

(* C17: the handler never looks at the button, so the guard is in event    *)
(* delivery alone.  "A request in flight while the button is enabled and   *)
(* the loading indicator hidden" arises only at a settlement that leaves   *)
(* another request pending; two requests are pending only after a submit   *)
(* event delivered during an in-flight request, and the first such event   *)
(* comes while the button is disabled.  After any settlement the panel     *)
(* shows the outcome of the request that settled last.                     *)
C17_GuardInDeliveryOnly ==
    [][/\ (PendingWhileReleased' /\ ~PendingWhileReleased) =>
              /\ Cardinality(InFlightSet) >= 2
              /\ Settled'
       /\ (Cardinality(InFlightSet') >= 2 /\ Cardinality(InFlightSet) < 2) =>
              /\ AnyInFlight
              /\ nSubmits' = nSubmits + 1
              /\ button.disabled \/ PendingWhileReleased
       /\ Settled' =>
              /\ result'.className = (IF Failed' THEN "error" ELSE "success")
              /\ result'.innerHTML = ExpectedContent']_vars

C17_Witness ==
    /\ PendingWhileReleased
    /\ InFlight(1)
    /\ handlers[1].before.textContent = "Deploy Site"
    /\ settled.slot = 2
    /\ settled.before.disabled
    /\ result.display = "block"
    /\ result.className = "error"

(* C18: the handler reads the two input fields and never writes them: the  *)
(* fields change only when the user edits them, an empty base-path input   *)
(* stays empty although "/" is transmitted, and a submission sends exactly *)
(* what the fields still hold afterwards, so resubmitting after a failure  *)
(* sends the same body.                                                    *)
C18_InputsUntouched ==
    [][/\ (repoUrlInput' # repoUrlInput \/ basePathInput' # basePathInput) =>
              UNCHANGED <<button, loading, result, handlers, console, unhandled,
                          nRequests, nSubmits, nFailures, settled>>
       /\ \A h \in Slots :
              (handlers[h].pc # "awaitFetch" /\ handlers'[h].pc = "awaitFetch") =>
                  handlers'[h].body =
                      JSONstringify(repoUrlInput'.value,
                                    IF basePathInput'.value = <<>>
                                    THEN <<"/">>
                                    ELSE basePathInput'.value)]_vars

C18_Witness ==
    \E h \in Slots :
        /\ handlers[h].pc = "awaitFetch"
        /\ nSubmits = 2
        /\ nFailures = 1
        /\ Cardinality(InFlightSet) = 1
        /\ basePathInput.value = <<>>
        /\ repoUrlInput.value = <<"a">>
        /\ Transmitted(handlers[h].body) = [url |-> <<"a">>, base_path |-> <<"/">>]

====
